---- MODULE Spec2Model ----
(***************************************************************************)
(* Model of pubsub/core/callables.py: the classification of a listener     *)
(* (getRawFunction), the extraction of its call signature (CallArgsInfo),  *)
(* the error raised for an unsupported listener (ListenerMismatchError)    *)
(* and the entry point getArgs.                                            *)
(*                                                                         *)
(* Encodings.  A Python str is a TLA+ string; a formatted message is the   *)
(* sequence of its pieces (literal text and substituted values).  A dict   *)
(* is the sequence of its <<key, value>> items in insertion order.  None   *)
(* is the string "None" where a name or a str is expected, and the empty   *)
(* sequence where a tuple, a list or a dict is expected (getfullargspec    *)
(* never returns an empty defaults tuple or an empty kwonlydefaults dict). *)
(* An instance of class NO_DEFAULT is the string "NO_DEFAULT".             *)
(***************************************************************************)
EXTENDS Integers, Sequences, FiniteSets

VARIABLES callable_, ignoreArgs, pc, ret, exc

vars == <<callable_, ignoreArgs, pc, ret, exc>>

(***************************************************************************)
(* Bounds of the inputs.                                                   *)
(***************************************************************************)
\* ordinary (positional-or-keyword) parameters after the receiver
MaxArgs == 2
\* keyword-only parameters
MaxKwargs == 1
\* length of the exclusion list
MaxIgnore == 2

(***************************************************************************)
(* Module-level values of callables.py.                                    *)
(***************************************************************************)
AUTO_TOPIC == "## your listener wants topic object ## (string unlikely to be used by caller)"

NO_DEFAULT == "NO_DEFAULT"

None == "None"

(***************************************************************************)
(* The inputs: listeners as inspect sees them, and exclusion lists.        *)
(***************************************************************************)
ArgPool == <<"a", "b", "x", "y">>

KwPool == <<"c", "d", "e">>

ArgDefaultValues == {"1", AUTO_TOPIC}

KwDefaultValues == {"2", AUTO_TOPIC}

Range(s) == {s[i] : i \in 1..Len(s)}

Min(m, n) == IF m < n THEN m ELSE n

SeqsUpTo(S, n) == UNION {[1..k -> S] : k \in 0..n}

\* the dict of the declared keyword-only defaults, from a choice per name
KwDefaultsOf(names, ch) ==
    LET Pick(i) == ch[i] # None
        idx == SelectSeq([i \in 1..Len(names) |-> i], Pick)
    IN  [j \in 1..Len(idx) |-> <<names[idx[j]], ch[idx[j]]>>]

\* functions, bound methods and callable objects with a well-formed signature
Signatures(kind, receiver) ==
    UNION {
      UNION {
        { [kind |-> kind, name |-> "on_msg", className |-> "Handler",
           hasModule |-> TRUE, module |-> "app",
           args |-> receiver \o SubSeq(ArgPool, 1, n),
           argsDefaults |-> d,
           varParamName |-> v, varOptParamName |-> w,
           kwargs |-> SubSeq(KwPool, 1, m),
           kwargsDefaults |-> KwDefaultsOf(SubSeq(KwPool, 1, m), ch)] :
          d \in SeqsUpTo(ArgDefaultValues, n),
          v \in {None, "args"}, w \in {None, "kwargs"},
          ch \in [1..m -> KwDefaultValues \cup {None}] } :
        m \in 0..Min(MaxKwargs, Len(KwPool)) } :
      n \in 0..Min(MaxArgs, Len(ArgPool)) }

\* values that are no function, no method and have no __call__
Others ==
    { [kind |-> "other", name |-> None, className |-> c[1],
       hasModule |-> c[2], module |-> c[3],
       args |-> <<>>, argsDefaults |-> <<>>,
       varParamName |-> None, varOptParamName |-> None,
       kwargs |-> <<>>, kwargsDefaults |-> <<>>] :
      c \in {<<"int", FALSE, None>>, <<"Widget", TRUE, "app">>} }

Callables ==
    Signatures("function", <<>>) \cup Signatures("method", <<"self">>)
      \cup Signatures("functor", <<"self">>) \cup Others

\* names an exclusion list may hold: parameters, the catch-alls, and a name that
\* is no parameter of any listener
IgnorePool == {"a", "b", "c", "args", "kwargs", "zz"}

\* exclusion lists: each name at most once, in any order
IgnoreLists ==
    {s \in SeqsUpTo(IgnorePool, MaxIgnore) :
       \A i, j \in 1..Len(s) : i # j => s[i] # s[j]}

(***************************************************************************)
(* Python's dict and sequence operations used by the code.                 *)
(***************************************************************************)
Keys(d) == [i \in 1..Len(d) |-> d[i][1]]

Values(d) == [i \in 1..Len(d) |-> d[i][2]]

HasKey(d, k) == \E i \in 1..Len(d) : d[i][1] = k

Get(d, k) == d[CHOOSE i \in 1..Len(d) : d[i][1] = k][2]

\* del d[k], for a key that is present
Del(d, k) ==
    LET Other(item) == item[1] # k
    IN  SelectSeq(d, Other)

\* seq[k] with a Python index k: a negative index counts from the end
PyIndex(seq, k) == IF k < 0 THEN seq[Len(seq) + k + 1] ELSE seq[k + 1]

\* seq[:n]
PyPrefix(seq, n) == SubSeq(seq, 1, Min(n, Len(seq)))

In(x, seq) == \E i \in 1..Len(seq) : seq[i] = x

(***************************************************************************)
(* inspect's predicates on a listener.                                     *)
(***************************************************************************)
isfunction(obj) == obj.kind = "function"

ismethod(obj) == obj.kind = "method"

hasCall(obj) == obj.kind \in {"function", "method", "functor"}

(***************************************************************************)
(* getModule, getID, getRawFunction, ListenerMismatchError.                *)
(***************************************************************************)
getModule(obj) == IF obj.hasModule THEN obj.module ELSE "__main__"

getID(sc) ==
    IF ismethod(sc)
    THEN [obj_name |-> <<sc.className, ".", sc.name>>, module |-> getModule(sc)]
    ELSE IF isfunction(sc)
    THEN [obj_name |-> <<sc.name>>, module |-> getModule(sc)]
    ELSE [obj_name |-> <<sc.className>>, module |-> getModule(sc)]

\* the (func, firstArg) pair, or the ValueError raised
getRawFunction(c) ==
    IF isfunction(c)
    THEN [raised |-> None, msg |-> <<>>, func |-> c, firstArg |-> 0]
    ELSE IF ismethod(c)
    THEN [raised |-> None, msg |-> <<>>, func |-> c, firstArg |-> 1]
    ELSE IF hasCall(c)
    THEN [raised |-> None, msg |-> <<>>, func |-> c, firstArg |-> 1]
    ELSE [raised |-> "ValueError",
          msg |-> <<"type \"", c.className, "\" not supported">>,
          func |-> c, firstArg |-> 0]

NoException == [type |-> None, msg |-> <<>>, idStr |-> <<>>, module |-> None]

ListenerMismatchError(msg, listener) ==
    LET id == getID(listener)
    IN  [type |-> "ListenerMismatchError",
         msg |-> <<"Listener \"">> \o id.obj_name \o <<"\" (from module \"", id.module,
                   "\") inadequate: ">> \o msg,
         idStr |-> id.obj_name,
         module |-> id.module]

(***************************************************************************)
(* CallArgsInfo.__init__, in the order of its statements.                  *)
(***************************************************************************)
argsDefaults_startsAt(args, argsDefaults) == Len(args) - Len(argsDefaults) - 1

\* the value stored for args[i] (i a Python index) by the loop over args
allArgsValue(args, argsDefaults, i) ==
    IF argsDefaults = <<>> \/ i < argsDefaults_startsAt(args, argsDefaults)
    THEN NO_DEFAULT
    ELSE PyIndex(argsDefaults, i - argsDefaults_startsAt(args, argsDefaults) - 1)

\* self.allArgs after the loop over args
allArgsOf(func, firstArgIdx) ==
    LET Kept(i) == ~(i = 0 /\ firstArgIdx > 0)
        idx == SelectSeq([j \in 1..Len(func.args) |-> j - 1], Kept)
    IN  [j \in 1..Len(idx) |->
           <<PyIndex(func.args, idx[j]),
             allArgsValue(func.args, func.argsDefaults, idx[j])>>]

\* self.allKwargs after the loop over kwargs
allKwargsOf(func) ==
    [j \in 1..Len(func.kwargs) |->
       IF func.kwargsDefaults = <<>> \/ ~HasKey(func.kwargsDefaults, func.kwargs[j])
       THEN <<func.kwargs[j], NO_DEFAULT>>
       ELSE <<func.kwargs[j], Get(func.kwargsDefaults, func.kwargs[j])>>]

\* the object after the statements up to self.allParams = [...]
extractParams(func, firstArgIdx) ==
    [allArgs |-> allArgsOf(func, firstArgIdx),
     allKwargs |-> allKwargsOf(func),
     acceptsAllKwargs |-> (func.varOptParamName # None),
     acceptsAllUnnamedArgs |-> (func.varParamName # None),
     allParams |-> Keys(allArgsOf(func, firstArgIdx)) \o Keys(allKwargsOf(func)),
     numRequired |-> 0,
     autoTopicArgName |-> None,
     raised |-> None]

\* the loop "for var_name in ignoreArgs": one deletion per name that is a key
RECURSIVE deleteIgnored(_, _)
deleteIgnored(self, names) ==
    IF names = <<>>
    THEN self
    ELSE LET var_name == Head(names)
         IN  deleteIgnored(
               IF HasKey(self.allArgs, var_name)
               THEN [self EXCEPT !.allArgs = Del(@, var_name)]
               ELSE IF HasKey(self.allKwargs, var_name)
               THEN [self EXCEPT !.allKwargs = Del(@, var_name)]
               ELSE self,
               Tail(names))

\* the block "if ignoreArgs:"
applyIgnoreArgs(self, func, ignore) ==
    IF ignore = <<>>
    THEN self
    ELSE LET s1 == deleteIgnored(self, ignore)
             s2 == IF In(func.varOptParamName, ignore)
                   THEN [s1 EXCEPT !.acceptsAllKwargs = FALSE] ELSE s1
         IN  IF In(func.varParamName, ignore)
             THEN [s2 EXCEPT !.acceptsAllUnnamedArgs = FALSE] ELSE s2

\* self.numRequired = the number of NO_DEFAULT values of both dicts
countRequired(self) ==
    LET IsNoDefault(v) == v = NO_DEFAULT
    IN  [self EXCEPT !.numRequired =
           Len(SelectSeq(Values(self.allArgs) \o Values(self.allKwargs), IsNoDefault))]

_combinedDict(self) == self.allArgs \o self.allKwargs

\* __setupAutoTopic: the first item whose value equals AUTO_TOPIC is recorded and
\* deleted from self.allArgs; the deletion raises KeyError for a key of allKwargs
setupAutoTopic(self) ==
    LET items == _combinedDict(self)
        hits == {i \in 1..Len(items) : items[i][2] = AUTO_TOPIC}
    IN  IF hits = {}
        THEN self
        ELSE LET first == CHOOSE i \in hits : \A j \in hits : i <= j
                 variable == items[first][1]
             IN  IF HasKey(self.allArgs, variable)
                 THEN [self EXCEPT !.autoTopicArgName = variable,
                                   !.allArgs = Del(@, variable)]
                 ELSE [self EXCEPT !.autoTopicArgName = variable,
                                   !.raised = "KeyError"]

\* the count taken before the exclusions are applied
CallArgsInfo_staleCount(func, firstArgIdx, ignore) ==
    setupAutoTopic(
      applyIgnoreArgs(countRequired(extractParams(func, firstArgIdx)), func, ignore))

CallArgsInfo(func, firstArgIdx, ignore) ==
    setupAutoTopic(
      countRequired(
        applyIgnoreArgs(extractParams(func, firstArgIdx), func, ignore)))

(***************************************************************************)
(* The getters of CallArgsInfo.                                            *)
(***************************************************************************)
getAllArgs(self) == self.allParams

getOptionalArgs(self) ==
    LET HasDefault(item) == item[2] # NO_DEFAULT
    IN  Keys(SelectSeq(self.allArgs \o self.allKwargs, HasDefault))

getRequiredArgs(self) ==
    LET IsRequired(item) == item[2] = NO_DEFAULT
    IN  Keys(SelectSeq(self.allArgs \o self.allKwargs, IsRequired))

(***************************************************************************)
(* getArgs: what it returns and what it raises.                            *)
(***************************************************************************)
NoInfo ==
    [allArgs |-> <<>>, allKwargs |-> <<>>, acceptsAllKwargs |-> FALSE,
     acceptsAllUnnamedArgs |-> FALSE, allParams |-> <<>>, numRequired |-> 0,
     autoTopicArgName |-> None, raised |-> None]

\* the ValueError of getRawFunction left to propagate
getArgsOutcome_uncaught(c, ignore) ==
    LET raw == getRawFunction(c)
    IN  IF raw.raised = "ValueError"
        THEN [ret |-> NoInfo,
              exc |-> [NoException EXCEPT !.type = "ValueError", !.msg = raw.msg]]
        ELSE LET self == CallArgsInfo(raw.func, raw.firstArg, ignore)
             IN  IF self.raised # None
                 THEN [ret |-> NoInfo,
                       exc |-> [NoException EXCEPT !.type = self.raised]]
                 ELSE [ret |-> self, exc |-> NoException]

getArgsOutcome(c, ignore) ==
    LET raw == getRawFunction(c)
    IN  IF raw.raised = "ValueError"
        THEN [ret |-> NoInfo, exc |-> ListenerMismatchError(raw.msg, c)]
        ELSE LET self == CallArgsInfo(raw.func, raw.firstArg, ignore)
             IN  IF self.raised # None
                 THEN [ret |-> NoInfo,
                       exc |-> [NoException EXCEPT !.type = self.raised]]
                 ELSE [ret |-> self, exc |-> NoException]

(***************************************************************************)
(* The state machine: one call of getArgs on one listener.                 *)
(***************************************************************************)
Init ==
    /\ callable_ \in Callables
    /\ ignoreArgs \in IgnoreLists
    /\ pc = "start"
    /\ ret = NoInfo
    /\ exc = NoException

getArgs ==
    /\ pc = "start"
    /\ ret' = getArgsOutcome(callable_, ignoreArgs).ret
    /\ exc' = getArgsOutcome(callable_, ignoreArgs).exc
    /\ pc' = "done"
    /\ UNCHANGED <<callable_, ignoreArgs>>

Next == getArgs

Spec == Init /\ [][Next]_vars

(***************************************************************************)
(* What a listener declares, read off its signature: the reference the     *)
(* claims compare the descriptor with.                                     *)
(***************************************************************************)
Returned == pc = "done" /\ exc.type = None

\* the number of leading parameters that are the receiver
ReceiverCount(c) == IF c.kind \in {"method", "functor"} /\ c.args # <<>> THEN 1 ELSE 0

\* the declared default of the j-th entry of c.args: the last D entries have one
DeclaredArgDefault(c, j) ==
    LET N == Len(c.args)
        D == Len(c.argsDefaults)
    IN  IF j <= N - D THEN NO_DEFAULT ELSE c.argsDefaults[j - (N - D)]

DeclaredKwDefault(c, name) ==
    IF HasKey(c.kwargsDefaults, name) THEN Get(c.kwargsDefaults, name) ELSE NO_DEFAULT

\* <<name, declared default>> of every parameter after the receiver, in
\* enumeration order: the ordinary parameters, then the keyword-only ones
Declared(c) ==
    [j \in 1..(Len(c.args) - ReceiverCount(c)) |->
       <<c.args[j + ReceiverCount(c)], DeclaredArgDefault(c, j + ReceiverCount(c))>>]
    \o [j \in 1..Len(c.kwargs) |-> <<c.kwargs[j], DeclaredKwDefault(c, c.kwargs[j])>>]

DeclaredMarkers(c) == {i \in 1..Len(Declared(c)) : Declared(c)[i][2] = AUTO_TOPIC}

AtMostOneMarker(c) == Cardinality(DeclaredMarkers(c)) <= 1

\* the first parameter, among those not excluded, that declares AUTO_TOPIC
FirstDeclaredAutoTopic(c, ignore) ==
    LET hits == {i \in DeclaredMarkers(c) : ~In(Declared(c)[i][1], ignore)}
    IN  IF hits = {} THEN None
        ELSE Declared(c)[CHOOSE i \in hits : \A j \in hits : i <= j][1]

\* seq without the names of ignore
Without(seq, ignore) ==
    LET Kept(n) == ~In(n, ignore)
    IN  SelectSeq(seq, Kept)

\* the outcome of getArgs on the same listener with an empty exclusion list
Unexcluded == getArgsOutcome(callable_, <<>>)

RecordedItems(self) == self.allArgs \o self.allKwargs

(***************************************************************************)
(* The claims.                                                             *)
(***************************************************************************)

\* C1: with an empty exclusion list, a parameter after the receiver is recorded
\* as required iff it declares no default (it is not one of the last D ordinary
\* parameters, or is a keyword-only parameter without default), and a parameter
\* recorded as optional carries its own declared default; so getRequiredArgs()
\* is the set of parameters without declared default and getOptionalArgs() holds
\* every parameter with a declared non-marker default.
C1_DefaultsAlignFromEnd ==
    (Returned /\ ignoreArgs = <<>>) =>
        \A i \in 1..Len(Declared(callable_)) :
            LET name == Declared(callable_)[i][1]
                default == Declared(callable_)[i][2]
            IN  /\ In(name, getRequiredArgs(ret)) <=> default = NO_DEFAULT
                /\ In(name, getOptionalArgs(ret)) =>
                       Get(RecordedItems(ret), name) = default
                /\ default \notin {NO_DEFAULT, AUTO_TOPIC} =>
                       In(name, getOptionalArgs(ret))

\* C2: after construction autoTopicArgName is the first parameter, in enumeration
\* order and among those not excluded, whose declared default is AUTO_TOPIC, and
\* None when there is none.
C2_AutoTopicIsFirstDeclaredMarker ==
    Returned => ret.autoTopicArgName = FirstDeclaredAutoTopic(callable_, ignoreArgs)

\* C3: when autoTopicArgName is not None after construction, that name is in none
\* of getAllArgs(), getRequiredArgs() and getOptionalArgs().
C3_AutoTopicNotAmongArgs ==
    (Returned /\ ret.autoTopicArgName # None) =>
        /\ ~In(ret.autoTopicArgName, getAllArgs(ret))
        /\ ~In(ret.autoTopicArgName, getRequiredArgs(ret))
        /\ ~In(ret.autoTopicArgName, getOptionalArgs(ret))

\* C4: exclusion monotonicity: getAllArgs() under an exclusion list S is a subset
\* of getAllArgs() under the empty list, and the names missing from it are
\* exactly those of S that getAllArgs() under the empty list holds.
C4_ExclusionMonotonicity ==
    (Returned /\ Unexcluded.exc.type = None) =>
        LET all0 == Range(getAllArgs(Unexcluded.ret))
            allS == Range(getAllArgs(ret))
        IN  /\ allS \subseteq all0
            /\ all0 \ allS = Range(ignoreArgs) \cap all0

\* C5: getArgs on a function, bound method or callable object with a well-formed
\* signature returns a descriptor and raises nothing, for every exclusion list.
C5_NoErrorForWellFormedSignature ==
    (pc = "done" /\ hasCall(callable_)) => exc.type = None

\* C6: getArgs on a value that is no function, no bound method and has no call
\* operator returns no descriptor and raises ListenerMismatchError, whose message
\* reads 'Listener "<identifier>" (from module "<module>") inadequate:
\* <explanation>' and whose explanation holds the name of the value's type.
C6_UnsupportedValueRaisesMismatch ==
    (pc = "done" /\ ~isfunction(callable_) /\ ~ismethod(callable_) /\ ~hasCall(callable_)) =>
        LET prefix == <<"Listener \"">> \o exc.idStr \o
                      <<"\" (from module \"", exc.module, "\") inadequate: ">>
        IN  /\ exc.type = "ListenerMismatchError"
            /\ ret = NoInfo
            /\ exc.idStr # <<>>
            /\ exc.module # None
            /\ Len(exc.msg) > Len(prefix)
            /\ SubSeq(exc.msg, 1, Len(prefix)) = prefix
            /\ In(callable_.className, SubSeq(exc.msg, Len(prefix) + 1, Len(exc.msg)))

\* a value without call operator was passed and the error was raised
C6_Witness ==
    /\ pc = "done"
    /\ callable_.kind = "other"
    /\ ~callable_.hasModule
    /\ exc.type = "ListenerMismatchError"
    /\ ignoreArgs # <<>>

\* C7: after construction numRequired is the number of names getRequiredArgs()
\* returns, and is not negative.
C7_NumRequiredCountsRequiredArgs ==
    Returned =>
        /\ ret.numRequired = Len(getRequiredArgs(ret))
        /\ ret.numRequired >= 0

\* a required parameter was excluded and the auto-topic parameter was extracted
C7_Witness ==
    /\ Returned
    /\ Unexcluded.exc.type = None
    /\ ret.numRequired < Unexcluded.ret.numRequired
    /\ ret.autoTopicArgName # None

\* C8: getRequiredArgs() and getOptionalArgs() are disjoint, every name of
\* getAllArgs() other than autoTopicArgName is in exactly one of them, neither
\* holds a name outside getAllArgs(), and no name of getOptionalArgs() has
\* AUTO_TOPIC as its recorded default (for a listener that declares at most one
\* AUTO_TOPIC default).
C8_RequiredOptionalPartition ==
    (Returned /\ AtMostOneMarker(callable_)) =>
        LET req == Range(getRequiredArgs(ret))
            opt == Range(getOptionalArgs(ret))
            all == Range(getAllArgs(ret))
        IN  /\ req \cap opt = {}
            /\ all \ {ret.autoTopicArgName} \subseteq req \cup opt
            /\ req \cup opt \subseteq all
            /\ \A n \in opt : Get(RecordedItems(ret), n) # AUTO_TOPIC

\* C9: after construction allParams[:numRequired] is the sequence of names that
\* getRequiredArgs() returns.
C9_RequiredArgsArePrefix ==
    Returned => PyPrefix(ret.allParams, ret.numRequired) = getRequiredArgs(ret)

\* C10: getRequiredArgs() and getOptionalArgs() under an exclusion list S are
\* those under the empty list without the names of S; each accepts-all flag is
\* its value under the empty list, but False when S holds the catch-all's name; a
\* list naming no parameter and no catch-all changes nothing; no error is raised
\* (for a listener that declares at most one AUTO_TOPIC default and is accepted
\* with the empty list).
C10_ExclusionAffectsOnlyNamed ==
    (pc = "done" /\ Unexcluded.exc.type = None /\ AtMostOneMarker(callable_)) =>
        /\ exc.type = None
        /\ getRequiredArgs(ret) = Without(getRequiredArgs(Unexcluded.ret), ignoreArgs)
        /\ getOptionalArgs(ret) = Without(getOptionalArgs(Unexcluded.ret), ignoreArgs)
        /\ ret.acceptsAllUnnamedArgs =
             (Unexcluded.ret.acceptsAllUnnamedArgs /\ ~In(callable_.varParamName, ignoreArgs))
        /\ ret.acceptsAllKwargs =
             (Unexcluded.ret.acceptsAllKwargs /\ ~In(callable_.varOptParamName, ignoreArgs))
        /\ (Range(ignoreArgs) \cap
              (Range(callable_.args) \cup Range(callable_.kwargs)
                 \cup {callable_.varParamName, callable_.varOptParamName}) = {})
             => ret = Unexcluded.ret

====
